---- MODULE Spec2Model ----
(***************************************************************************)
(* The signing benchmark driver: the useSigningPerformance hook (two       *)
(* variants: the memo-transaction one and the byte-message one), the       *)
(* SigningPerformanceTest component that drives it, and SigningUtils.      *)
(*                                                                         *)
(* React state (results, isRunning, progress) is written by setResults,    *)
(* setIsRunning and setProgress; the callbacks and the buttons see the     *)
(* values of the last render (rendered).  A run is one asynchronous task:  *)
(* it is suspended at `await adapter` (pc = "awaitSign") or at the 10 ms   *)
(* pause (pc = "awaitPause"); the code between two awaits is one step.     *)
(***************************************************************************)
EXTENDS Integers, Sequences, FiniteSets, TLC

\* ---------------------------------------------------------------- bounds
\* config.numTests ranges over 1..MaxIterations
MaxIterations == 2
\* Date.now() ranges over 0..MaxClock
MaxClock == 0
\* significant bits of a number (53 in a JS engine)
Precision == 3
\* longest sample sequence given to calculateStats
MaxSamples == 4
\* direct calls of buildMemoTransaction
MaxBuilds == 2
\* longest signatures array the signTransaction callback resolves with
MaxSignatures == 2

\* Concurrent invocations of runPerformanceTest that are tracked.
RunIds == {1, 2}
\* result.timeTaken of a real signing call (performance.now() differences)
TimeValues == {0, 1}
\* "tx": the memo-transaction hook; "bytes": the byte-message hook
Variants == {"tx", "bytes"}
\* the privyWalletAddress prop: a wallet address or undefined
Addresses == {"wallet", "undefined"}

\* The fixed order of the three loops of runPerformanceTest.
Methods == <<"local", "privy-client", "web-crypto">>

VARIABLES
  variant,            \* which hook the component is built with
  privyWalletAddress, \* prop of the hook
  recentBlockhash,    \* prop of the hook: the freshness token
  results,            \* useState: SigningPerformanceData[]
  isRunning,          \* useState: boolean
  progress,           \* useState: TestProgress
  rendered,           \* what the last render's closures and buttons see
  runs,               \* the invocations of runPerformanceTest
  now,                \* Date.now()
  lastOp,             \* the last operation or driver step that ran
  samples,            \* the argument of a direct call of calculateStats
  stats,              \* what that call returned
  built,              \* the direct calls of buildMemoTransaction
  signedTx,           \* what the signTransaction callback resolved with
  signingResult       \* what signMemoTxWithPrivy made of it

\* The state of the direct calls of SigningUtils' static functions.
utils == <<samples, stats, built, signedTx, signingResult>>

vars == <<variant, privyWalletAddress, recentBlockhash, results, isRunning, progress,
          rendered, runs, now, lastOp, utils>>

\* ------------------------------------------------------------ data model
SigningPerformanceData(testId, timestamp, method, timeTaken) ==
  [testId |-> testId, timestamp |-> timestamp, method |-> method,
   timeTaken |-> timeTaken]

TestProgress(current, total, currentMethod) ==
  [current |-> current, total |-> total, currentMethod |-> currentMethod]

InitialProgress == TestProgress(0, 0, "idle")

\* A number as template literals print it: its decimal digits.
DigitChars == <<"0", "1", "2", "3", "4", "5", "6", "7", "8", "9">>

RECURSIVE NumberToString(_)
NumberToString(n) ==
  IF n < 10
  THEN <<DigitChars[n + 1]>>
  ELSE NumberToString(n \div 10) \o <<DigitChars[(n % 10) + 1]>>

\* testId: `test_${Date.now()}`
TestIdString(ts) == <<"test_">> \o NumberToString(ts)

\* generateTestMessage without the iteration in the text.
GenerateTestMessageNoIteration(testId, iteration, ts) ==
  <<"Performance test ">> \o testId
    \o <<" - timestamp ">> \o NumberToString(ts)

\* generateTestMessage, with Date.now() = ts: the text as the sequence of
\* its literal pieces and of the characters of what it interpolates.
GenerateTestMessage(testId, iteration, ts) ==
  <<"Performance test ">> \o testId
    \o <<" - iteration ">> \o NumberToString(iteration)
    \o <<" - timestamp ">> \o NumberToString(ts)

\* buildMemoTransaction that leaves tx.recentBlockhash unset.
BuildMemoTransactionNoBlockhash(feePayer, blockhash, memo) ==
  [feePayer |-> feePayer,
   recentBlockhash |-> "undefined",
   instructions |-> <<[programId |-> "MemoSq4gqABAXKb96qnH8TysNcWxMyWCqXgDLGmfcHr",
                       keys |-> <<>>,
                       data |-> memo]>>]

\* buildMemoTransaction: one memo-program instruction with no keys, the
\* memo as its data, the fee payer and the recent blockhash.
BuildMemoTransaction(feePayer, blockhash, memo) ==
  [feePayer |-> feePayer,
   recentBlockhash |-> blockhash,
   instructions |-> <<[programId |-> "MemoSq4gqABAXKb96qnH8TysNcWxMyWCqXgDLGmfcHr",
                       keys |-> <<>>,
                       data |-> memo]>>]

\* The fee payer of each adapter's transaction: the local keypair's public
\* key, the wallet address, the exported Web Crypto public key.
FeePayer(method) ==
  CASE method = "local" -> "localWallet.publicKey"
    [] method = "privy-client" -> "privyWalletAddress"
    [] method = "web-crypto" -> "webCryptoKeyPair.publicKey"

\* A slot no invocation occupies.
FreeRun ==
  [pc |-> "free", numTests |-> 0, m |-> 0, i |-> 0, testId |-> 0,
   newResults |-> <<>>, testCount |-> 0, remoteCalls |-> 0,
   payloads |-> <<>>]

\* An invocation that returned: its locals are gone; what it was called
\* with and how often it called the remote callback is kept.
ReturnedRun(run) ==
  [FreeRun EXCEPT !.pc = "done", !.numTests = run.numTests,
                  !.remoteCalls = run.remoteCalls]

\* The state one step of a run reads and writes.
DriverState(run, res, prog, running) ==
  [run |-> run, results |-> res, progress |-> prog, isRunning |-> running]

Active(run) == run.pc \in {"awaitSign", "awaitPause"}

ActiveRuns == {r \in RunIds : Active(runs[r])}

\* ------------------------------------------------------- the run's steps

\* RecordResult without the warm-up test: every iteration is recorded.
RecordResultNoWarmup(s, method, timeTaken, ts) ==
  LET run == s.run
      newResults == Append(run.newResults,
                      SigningPerformanceData(run.testId, ts, method,
                                             timeTaken))
      testCount == run.testCount + 1
  IN [s EXCEPT !.run = [run EXCEPT !.newResults = newResults,
                                   !.testCount = testCount,
                                   !.pc = "awaitPause"],
               !.results = newResults,
               !.progress = [s.progress EXCEPT !.current = testCount]]

\* The elapsed time the driver records for an adapter call that spent
\* `creation` building the payload and `sign` signing it.  The tx adapters
\* build the transaction before startTime and return endTime - startTime;
\* the bytes hook records creationTimeMs + signed.signTimeMs.
TimeTaken(creation, sign) ==
  IF variant = "tx" THEN sign ELSE creation + sign

\* RecordResult that publishes the sample just made instead of the copy
\* of newResults.
RecordResultPublishLatest(s, method, timeTaken, ts) ==
  LET run == s.run
      keep == run.i > 0
      sample == SigningPerformanceData(run.testId, ts, method, timeTaken)
      newResults == IF keep THEN Append(run.newResults, sample)
                    ELSE run.newResults
      testCount == run.testCount + 1
  IN [s EXCEPT !.run = [run EXCEPT !.newResults = newResults,
                                   !.testCount = testCount,
                                   !.pc = "awaitPause"],
               !.results = IF keep THEN <<sample>> ELSE s.results,
               !.progress = [s.progress EXCEPT !.current = testCount]]

\* RecordResult with a web-crypto loop that never calls setResults.
RecordResultWebUnpublished(s, method, timeTaken, ts) ==
  LET run == s.run
      keep == run.i > 0
      newResults == IF keep
                    THEN Append(run.newResults,
                           SigningPerformanceData(run.testId, ts, method,
                                                  timeTaken))
                    ELSE run.newResults
      publish == IF run.m = 3 THEN FALSE ELSE keep
      testCount == run.testCount + 1
  IN [s EXCEPT !.run = [run EXCEPT !.newResults = newResults,
                                   !.testCount = testCount,
                                   !.pc = "awaitPause"],
               !.results = IF publish THEN newResults ELSE s.results,
               !.progress = [s.progress EXCEPT !.current = testCount]]

\* After the adapter returned: the warm-up test, push, setResults,
\* testCount++, setProgress.  The web-crypto loop publishes the results in
\* every iteration, the other two only when they push.
RecordResult(s, method, timeTaken, ts) ==
  LET run == s.run
      keep == run.i > 0
      newResults == IF keep
                    THEN Append(run.newResults,
                           SigningPerformanceData(run.testId, ts, method,
                                                  timeTaken))
                    ELSE run.newResults
      publish == IF run.m = 3 THEN TRUE ELSE keep
      testCount == run.testCount + 1
  IN [s EXCEPT !.run = [run EXCEPT !.newResults = newResults,
                                   !.testCount = testCount,
                                   !.pc = "awaitPause"],
               !.results = IF publish THEN newResults ELSE s.results,
               !.progress = [s.progress EXCEPT !.current = testCount]]

\* BeginIteration without the test of privyWalletAddress: the remote
\* adapter is always called.
BeginIterationAlwaysSign(s, ts) ==
  IF s.run.m = 2
  THEN [s EXCEPT !.run.pc = "awaitSign", !.run.remoteCalls = @ + 1]
  ELSE [s EXCEPT !.run.pc = "awaitSign"]

\* The privy-client iteration of the tx hook without a wallet address:
\* the sentinel {timeTaken: 0, signature: "", method: "privy-client"} is
\* the result, with no await, and the rest of the loop body follows.
RemoteUnavailableTx(s, ts) == RecordResult(s, "privy-client", 0, ts)

\* The privy-client iteration of the bytes hook without a wallet address:
\* new PublicKey(privyWalletAddress!) throws for undefined.
RemoteUnavailableBytes(s) == [s EXCEPT !.run.pc = "aborted"]

\* The transaction the tx hook's adapter builds for the iteration at the
\* head of whose body the run is: the memo is generateTestMessage(testId,
\* i + (offset of the loop)); the blockhash is the prop.
IterationPayload(run, ts) ==
  BuildMemoTransaction(
    FeePayer(Methods[run.m]),
    recentBlockhash,
    GenerateTestMessage(TestIdString(run.testId),
                        run.i + (run.m - 1) * run.numTests, ts))

\* The adapter is called: in the tx hook it builds the transaction first.
\* (What the bytes hook's createUncachedTransactionMessage builds is not
\* recorded.)
CallAdapter(s, ts) ==
  [s EXCEPT !.run.pc = "awaitSign",
            !.run.payloads = IF variant = "tx"
                             THEN Append(@, IterationPayload(s.run, ts))
                             ELSE @]

\* The head of a loop body, up to its first await.
BeginIteration(s, ts) ==
  IF s.run.m = 2
  THEN IF privyWalletAddress = "undefined"
       THEN IF variant = "tx"
            THEN RemoteUnavailableTx(s, ts)
            ELSE RemoteUnavailableBytes(s)
       ELSE [CallAdapter(s, ts) EXCEPT !.run.remoteCalls = @ + 1]
  ELSE CallAdapter(s, ts)

\* AfterPause taking the methods in turn: one iteration of each method,
\* then the next iteration of each.
AfterPauseRoundRobin(s, ts) ==
  LET run == s.run IN
  IF run.m < 3
  THEN BeginIteration(
         [s EXCEPT !.run.m = @ + 1,
                   !.progress.currentMethod = Methods[run.m + 1]], ts)
  ELSE IF run.i + 1 < run.numTests
       THEN BeginIteration(
              [s EXCEPT !.run.m = 1, !.run.i = @ + 1,
                        !.progress.currentMethod = Methods[1]], ts)
       ELSE [s EXCEPT !.run = ReturnedRun(run),
                      !.isRunning = FALSE,
                      !.progress.currentMethod = "idle"]

\* After the pause: i++, the loop test, the next loop's setProgress, and
\* after the third loop setIsRunning(false) and currentMethod "idle".
AfterPause(s, ts) ==
  LET run == s.run IN
  IF run.i + 1 < run.numTests
  THEN BeginIteration([s EXCEPT !.run.i = @ + 1], ts)
  ELSE IF run.m < 3
       THEN BeginIteration(
              [s EXCEPT !.run.m = @ + 1, !.run.i = 0,
                        !.progress.currentMethod = Methods[run.m + 1]], ts)
       ELSE [s EXCEPT !.run = ReturnedRun(run),
                      !.isRunning = FALSE,
                      !.progress.currentMethod = "idle"]

\* runPerformanceTest after its guard: setIsRunning(true), setResults([]),
\* testId, totalTests, newResults, setProgress({0, totalTests, "idle"}).
ResetForRun(numTests, ts) ==
  DriverState([FreeRun EXCEPT !.pc = "awaitSign", !.numTests = numTests,
                              !.m = 1, !.testId = ts],
              <<>>,
              TestProgress(0, numTests * 3, "idle"),
              TRUE)

\* StartRun that leaves the results of the run before in place.
StartRunKeepResults(numTests, ts) ==
  BeginIteration(
    [ResetForRun(numTests, ts) EXCEPT !.results = results,
                                      !.progress.currentMethod = "local"],
    ts)

\* runPerformanceTest from its guard to its first await: the reset, then
\* setProgress((prev) => ({...prev, currentMethod: "local"})) and the head
\* of the first iteration.
StartRun(numTests, ts) ==
  BeginIteration(
    [ResetForRun(numTests, ts) EXCEPT !.progress.currentMethod = "local"],
    ts)

\* clearResults keeping the total of the previous progress.
ClearedStateKeepTotal(s) ==
  [s EXCEPT !.results = <<>>,
            !.progress = TestProgress(0, s.progress.total, "idle")]

\* clearResults
ClearedState(s) ==
  [s EXCEPT !.results = <<>>, !.progress = InitialProgress]

\* What a render shows: the closure's isRunning, and results.length === 0.
View(running, res) == [isRunning |-> running, hasResults |-> res # <<>>]

\* -------------------------------------------------------------- actions
Current(r) == DriverState(runs[r], results, progress, isRunning)

\* What lastOp holds of a step that is not the return of an adapter.
NoTiming == [creation |-> 0, sign |-> 0, returned |-> FALSE]

CommitTimed(r, s, ts, timing) ==
  /\ runs' = [runs EXCEPT ![r] = s.run]
  /\ results' = s.results
  /\ progress' = s.progress
  /\ isRunning' = s.isRunning
  /\ now' = ts
  /\ lastOp' = [op |-> CASE s.run.pc = "done" -> "finish"
                         [] s.run.pc = "aborted" -> "throw"
                         [] OTHER -> "step",
                run |-> r, timing |-> timing]

Commit(r, s, ts) == CommitTimed(r, s, ts, NoTiming)

FreeSlots == {r \in RunIds : runs[r].pc \in {"free", "done"}}

\* The hook's runPerformanceTest(config), called through the callback of
\* the last render.
RunPerformanceTest(numTests, ts) ==
  IF rendered.isRunning
  THEN /\ lastOp' = [op |-> "reject", run |-> 0, timing |-> NoTiming]
       /\ now' = ts
       /\ UNCHANGED <<runs, results, progress, isRunning>>
  ELSE /\ FreeSlots # {}
       /\ LET r == CHOOSE x \in FreeSlots : \A y \in FreeSlots : x <= y
              s == StartRun(numTests, ts)
          IN /\ runs' = [runs EXCEPT ![r] = s.run]
             /\ results' = s.results
             /\ progress' = s.progress
             /\ isRunning' = s.isRunning
             /\ now' = ts
             /\ lastOp' = [op |-> IF results = <<>> THEN "start" ELSE "restart",
                          run |-> r, timing |-> NoTiming]

\* The last operation was clearResults ("clearAgain": so was the one
\* before it).
IsClear(op) == op.op \in {"clear", "clearAgain"}

\* The hook's clearResults().
ClearResults(ts) ==
  LET s == ClearedState(DriverState(FreeRun, results, progress, isRunning))
  IN /\ results' = s.results
     /\ progress' = s.progress
     /\ isRunning' = s.isRunning
     /\ now' = ts
     /\ lastOp' = [op |-> IF IsClear(lastOp) THEN "clearAgain" ELSE "clear",
                   run |-> 0, timing |-> NoTiming]
     /\ UNCHANGED runs

\* The adapter's promise resolves.
SignReturn(r) ==
  /\ runs[r].pc = "awaitSign"
  /\ \E creation \in TimeValues, sign \in TimeValues, ts \in now..MaxClock :
       CommitTimed(r,
                   RecordResult(Current(r), Methods[runs[r].m],
                                TimeTaken(creation, sign), ts),
                   ts,
                   [creation |-> creation, sign |-> sign, returned |-> TRUE])
  /\ UNCHANGED <<utils, variant, privyWalletAddress, recentBlockhash, rendered>>

\* SignThrow with the rejection caught in a try/finally that resets the
\* hook: isRunning false and currentMethod "idle".
SignThrowCaught(r) ==
  /\ runs[r].pc = "awaitSign"
  /\ \E ts \in now..MaxClock :
       Commit(r, [Current(r) EXCEPT !.run.pc = "aborted",
                                    !.isRunning = FALSE,
                                    !.progress.currentMethod = "idle"], ts)
  /\ UNCHANGED <<utils, variant, privyWalletAddress, recentBlockhash, rendered>>

\* SignThrow with a remote adapter that calls the callback again when it
\* rejects.
SignThrowRetry(r) ==
  /\ runs[r].pc = "awaitSign"
  /\ \E ts \in now..MaxClock :
       Commit(r, IF runs[r].m = 2
                 THEN [Current(r) EXCEPT !.run.remoteCalls = @ + 1]
                 ELSE [Current(r) EXCEPT !.run.pc = "aborted"], ts)
  /\ UNCHANGED <<utils, variant, privyWalletAddress, recentBlockhash, rendered>>

\* The adapter's promise rejects: nothing catches it.
SignThrow(r) ==
  /\ runs[r].pc = "awaitSign"
  /\ \E ts \in now..MaxClock :
       Commit(r, [Current(r) EXCEPT !.run.pc = "aborted"], ts)
  /\ UNCHANGED <<utils, variant, privyWalletAddress, recentBlockhash, rendered>>

\* SignHang with a watchdog that gives the hook up when the call does not
\* settle: isRunning false and currentMethod "idle".
SignHangWatchdog(r) ==
  /\ runs[r].pc = "awaitSign"
  /\ runs[r].m = 2
  /\ runs' = [runs EXCEPT ![r].pc = "hung"]
  /\ isRunning' = FALSE
  /\ progress' = [progress EXCEPT !.currentMethod = "idle"]
  /\ lastOp' = [op |-> "hang", run |-> r, timing |-> NoTiming]
  /\ UNCHANGED <<utils, variant, privyWalletAddress, recentBlockhash, rendered, results, now>>

\* The remote signing callback's promise never settles: the run stays
\* suspended at `await signTransaction(...)`; no timeout resumes it.
SignHang(r) ==
  /\ runs[r].pc = "awaitSign"
  /\ runs[r].m = 2
  /\ runs' = [runs EXCEPT ![r].pc = "hung"]
  /\ lastOp' = [op |-> "hang", run |-> r, timing |-> NoTiming]
  /\ UNCHANGED <<utils, variant, privyWalletAddress, recentBlockhash, rendered, results, isRunning,
                 progress, now>>

\* The 10 ms timer fires.
PauseReturn(r) ==
  /\ runs[r].pc = "awaitPause"
  /\ \E ts \in now..MaxClock : Commit(r, AfterPause(Current(r), ts), ts)
  /\ UNCHANGED <<utils, variant, privyWalletAddress, recentBlockhash, rendered>>

RunStep ==
  \E r \in RunIds :
    SignReturn(r) \/ SignThrow(r) \/ SignHang(r) \/ PauseReturn(r)

\* The steps of a run none of whose adapter calls rejects.
RunStepOk == \E r \in RunIds : SignReturn(r) \/ PauseReturn(r)

\* React commits a render of the updates a run made after an await.
Render ==
  /\ rendered # View(isRunning, results)
  /\ rendered' = View(isRunning, results)
  /\ UNCHANGED <<utils, variant, privyWalletAddress, recentBlockhash, results, isRunning, progress,
                 runs, now, lastOp>>

\* The buttons of the component.
StartDisabled == rendered.isRunning

\* ClearDisabled without the test of isRunning.
ClearDisabledWhenEmpty == ~rendered.hasResults

ClearDisabled == rendered.isRunning \/ ~rendered.hasResults

\* A click on Start: handleRunTest, then React's synchronous render of the
\* updates the handler made.
ClickStart ==
  /\ ~StartDisabled
  /\ \E numTests \in 1..MaxIterations, ts \in now..MaxClock :
       RunPerformanceTest(numTests, ts)
  /\ rendered' = View(isRunning', results')
  /\ UNCHANGED <<utils, variant, privyWalletAddress, recentBlockhash>>

\* A click on Clear Results.
ClickClear ==
  /\ ~ClearDisabled
  /\ \E ts \in now..MaxClock : ClearResults(ts)
  /\ rendered' = View(isRunning', results')
  /\ UNCHANGED <<utils, variant, privyWalletAddress, recentBlockhash>>

\* Any caller of the hook: runPerformanceTest and clearResults as the hook
\* returns them, with no button in between.
CallStart ==
  /\ \E numTests \in 1..MaxIterations, ts \in now..MaxClock :
       RunPerformanceTest(numTests, ts)
  /\ UNCHANGED <<utils, variant, privyWalletAddress, recentBlockhash, rendered>>

CallClear ==
  /\ \E ts \in now..MaxClock : ClearResults(ts)
  /\ UNCHANGED <<utils, variant, privyWalletAddress, recentBlockhash, rendered>>

\* A call that has not returned.
NotCalled == [returned |-> FALSE, value |-> <<>>]

\* No direct call of a static function of SigningUtils has been made.
\* The callback has not resolved.
NoSignedTx == [kind |-> "pending", items |-> <<>>]

\* signMemoTxWithPrivy has neither returned nor thrown.
NoSigningResult == [outcome |-> "pending", signature |-> <<>>, method |-> ""]

NoUtilCalls ==
  /\ samples = <<>>
  /\ stats = NotCalled
  /\ built = <<>>
  /\ signedTx = NoSignedTx
  /\ signingResult = NoSigningResult

InitHook ==
  /\ variant \in Variants
  /\ privyWalletAddress \in Addresses
  /\ recentBlockhash = "recentBlockhash"
  /\ results = <<>>
  /\ isRunning = FALSE
  /\ progress = InitialProgress
  /\ rendered = View(FALSE, <<>>)
  /\ runs = [r \in RunIds |-> FreeRun]
  /\ now = 0
  /\ lastOp = [op |-> "init", run |-> 0, timing |-> NoTiming]

Init == InitHook /\ NoUtilCalls

\* The hook driven by the component.
Next == ClickStart \/ ClickClear \/ RunStep \/ Render

Spec == Init /\ [][Next]_vars

\* The hook driven by any caller.
NextHook == CallStart \/ CallClear \/ RunStep \/ Render

SpecHook == Init /\ [][NextHook]_vars

\* The component's Start button, and clearResults called by any caller.
NextReset == ClickStart \/ CallClear \/ RunStep \/ Render

SpecReset == Init /\ [][NextReset]_vars

\* The hook driven by the component, with adapters that never reject; the
\* event loop runs every resolved promise's continuation and every timer.
NextOk == ClickStart \/ ClickClear \/ RunStepOk \/ Render

FairSpec ==
  /\ Init
  /\ [][NextOk]_vars
  /\ \A r \in RunIds : WF_vars(SignReturn(r) \/ PauseReturn(r))

\* ------------------------------------------------- floating-point numbers
\* A JS number that is finite and not negative: m * 2^e with m odd, or 0.
\* Every arithmetic operation rounds its exact result to the nearest number
\* of Precision significant bits, ties to the even significand.
Float(m, e) == [m |-> m, e |-> e]

Zero == Float(0, 0)

RECURSIVE Pow2(_)
Pow2(n) == IF n = 0 THEN 1 ELSE 2 * Pow2(n - 1)

RECURSIVE Normalize(_, _)
Normalize(m, e) ==
  IF m = 0 THEN Zero
  ELSE IF m % 2 = 0 THEN Normalize(m \div 2, e + 1)
  ELSE Float(m, e)

\* The exact value of a number as the fraction Num / Den.
Num(x) == IF x.e >= 0 THEN x.m * Pow2(x.e) ELSE x.m
Den(x) == IF x.e >= 0 THEN 1 ELSE Pow2(0 - x.e)

\* n / (d * 2^e) brought into [2^(Precision-1), 2^Precision), then rounded.
RECURSIVE RoundScaled(_, _, _)
RoundScaled(n, d, e) ==
  IF n >= d * Pow2(Precision) THEN RoundScaled(n, 2 * d, e + 1)
  ELSE IF n < d * Pow2(Precision - 1) THEN RoundScaled(2 * n, d, e - 1)
  ELSE LET q == n \div d
           r == n % d
           up == 2 * r > d \/ (2 * r = d /\ q % 2 = 1)
       IN Normalize(IF up THEN q + 1 ELSE q, e)

\* The number nearest to the fraction n / d.
Round(n, d) == IF n = 0 THEN Zero ELSE RoundScaled(n, d, 0)

\* a + b
Add(a, b) == Round(Num(a) * Den(b) + Num(b) * Den(a), Den(a) * Den(b))

\* a / k for an array length k
Divide(a, k) == Round(Num(a), Den(a) * k)

\* a < b; also (a - b) < 0, the sign of a rounded difference being the
\* sign of the exact one.
Less(a, b) == Num(a) * Den(b) < Num(b) * Den(a)

\* The number an integer literal denotes.
Number(n) == Round(n, 1)

\* --------------------------------------------------------- calculateStats
Front(seq) == SubSeq(seq, 1, Len(seq) - 1)

Last(seq) == seq[Len(seq)]

\* byMethod grouped in the fixed order of the methods, whatever the order
\* of the samples.
ByMethodInFixedOrder(res) ==
  LET present == SelectSeq(Methods,
                   LAMBDA method : \E k \in DOMAIN res : res[k].method = method)
  IN [k \in DOMAIN present |->
        [method |-> present[k],
         methodResults |-> SelectSeq(res, LAMBDA r : r.method = present[k])]]

\* byMethod: results.reduce(...) adds a key the first time its method
\* occurs and pushes every result to its method's array; the entries are
\* listed as Object.entries lists them, string keys in creation order.
RECURSIVE ByMethod(_)
ByMethod(res) ==
  IF res = <<>> THEN <<>>
  ELSE LET acc == ByMethod(Front(res))
           result == Last(res)
       IN IF \E k \in DOMAIN acc : acc[k].method = result.method
          THEN [k \in DOMAIN acc |->
                  IF acc[k].method = result.method
                  THEN [acc[k] EXCEPT !.methodResults = Append(@, result)]
                  ELSE acc[k]]
          ELSE Append(acc, [method |-> result.method,
                            methodResults |-> <<result>>])

\* times.reduce((a, b) => a + b, 0)
RECURSIVE Sum(_)
Sum(times) ==
  IF times = <<>> THEN Zero ELSE Add(Sum(Front(times)), Last(times))

\* The sum left undivided.
AverageUndivided(times) ==
  IF Len(times) > 0 THEN Sum(times) ELSE Zero

\* avgTime
Average(times) ==
  IF Len(times) > 0 THEN Divide(Sum(times), Len(times)) ELSE Zero

\* The first of the times taken for the least.
FirstOfTimes(times) == times[1]

\* Math.min(...times)
RECURSIVE MathMin(_)
MathMin(times) ==
  IF Len(times) = 1 THEN times[1]
  ELSE LET rest == MathMin(Front(times))
       IN IF Less(Last(times), rest) THEN Last(times) ELSE rest

\* Math.max(...times)
RECURSIVE MathMax(_)
MathMax(times) ==
  IF Len(times) = 1 THEN times[1]
  ELSE LET rest == MathMax(Front(times))
       IN IF Less(rest, Last(times)) THEN Last(times) ELSE rest

\* x put into an ascending sequence after the elements not above it.
RECURSIVE Insert(_, _)
Insert(sorted, x) ==
  IF sorted = <<>> THEN <<x>>
  ELSE IF Less(x, Last(sorted))
       THEN Append(Insert(Front(sorted), x), Last(sorted))
       ELSE Append(sorted, x)

\* The numbers left in the order given.
Unsorted(numbers) == numbers

\* [...numbers].sort((a, b) => a - b)
RECURSIVE SortAscending(_)
SortAscending(numbers) ==
  IF numbers = <<>> THEN <<>>
  ELSE Insert(SortAscending(Front(numbers)), Last(numbers))

\* calculateMedian; sorted is indexed from 1 here.
CalculateMedian(numbers) ==
  LET sorted == SortAscending(numbers)
      mid == Len(sorted) \div 2
  IN IF Len(sorted) % 2 = 0
     THEN Divide(Add(sorted[mid], sorted[mid + 1]), 2)
     ELSE sorted[mid + 1]

\* calculateStats
CalculateStats(res) ==
  LET byMethod == ByMethod(res)
  IN [k \in DOMAIN byMethod |->
        LET methodResults == byMethod[k].methodResults
            times == [j \in DOMAIN methodResults |->
                        methodResults[j].timeTaken]
        IN [method |-> byMethod[k].method,
            totalTests |-> Len(methodResults),
            avgTime |-> Average(times),
            minTime |-> IF Len(times) > 0 THEN MathMin(times) ELSE Zero,
            maxTime |-> IF Len(times) > 0 THEN MathMax(times) ELSE Zero,
            medianTime |-> IF Len(times) > 0 THEN CalculateMedian(times)
                           ELSE Zero]]

\* The elapsed times of the samples given to calculateStats.
StatValues == {Number(1), Number(2), Number(6)}

StatSamples ==
  {SigningPerformanceData(0, 0, Methods[k], v) :
     k \in DOMAIN Methods, v \in StatValues}

\* A direct call of SigningUtils.calculateStats(samples).
CalculateStatsCall ==
  /\ ~stats.returned
  /\ stats' = [returned |-> TRUE, value |-> CalculateStats(samples)]
  /\ UNCHANGED <<variant, privyWalletAddress, recentBlockhash, results,
                 isRunning, progress, rendered, runs, now, lastOp, samples,
                 built, signedTx, signingResult>>

InitStats ==
  /\ InitHook
  /\ variant = "tx"
  /\ privyWalletAddress = "wallet"
  /\ samples \in UNION {[1..n -> StatSamples] : n \in 0..MaxSamples}
  /\ stats = NotCalled
  /\ built = <<>>
  /\ signedTx = NoSignedTx
  /\ signingResult = NoSigningResult

NextStats == CalculateStatsCall

\* calculateStats applied to any sequence of at most MaxSamples samples.
SpecStats == InitStats /\ [][NextStats]_vars

\* --------------------------------------------------- buildMemoTransaction
\* The arguments given to buildMemoTransaction.
FeePayers == {FeePayer(Methods[k]) : k \in DOMAIN Methods}

Blockhashes ==
  {"recentBlockhash", "nextBlockhash", "11111111111111111111111111111111"}

Memos == {GenerateTestMessage(TestIdString(0), i, 0) : i \in 0..1}

\* A direct call of SigningUtils.buildMemoTransaction.
BuildMemoTransactionCall ==
  /\ Len(built) < MaxBuilds
  /\ \E feePayer \in FeePayers, blockhash \in Blockhashes, memo \in Memos :
       built' = Append(built,
                  [feePayer |-> feePayer, blockhash |-> blockhash,
                   memo |-> memo,
                   tx |-> BuildMemoTransaction(feePayer, blockhash, memo)])
  /\ UNCHANGED <<variant, privyWalletAddress, recentBlockhash, results,
                 isRunning, progress, rendered, runs, now, lastOp, samples,
                 stats, signedTx, signingResult>>

InitBuild ==
  /\ InitHook
  /\ variant = "tx"
  /\ privyWalletAddress = "wallet"
  /\ NoUtilCalls

NextBuild == BuildMemoTransactionCall

\* buildMemoTransaction called at most MaxBuilds times with any arguments.
SpecBuild == InitBuild /\ [][NextBuild]_vars

\* ---------------------------------------------------- signMemoTxWithPrivy
\* The base64 alphabet.
Base64Chars ==
  <<"A", "B", "C", "D", "E", "F", "G", "H", "I", "J", "K", "L", "M", "N", "O",
    "P", "Q", "R", "S", "T", "U", "V", "W", "X", "Y", "Z", "a", "b", "c", "d",
    "e", "f", "g", "h", "i", "j", "k", "l", "m", "n", "o", "p", "q", "r", "s",
    "t", "u", "v", "w", "x", "y", "z", "0", "1", "2", "3", "4", "5", "6", "7",
    "8", "9", "+", "/">>

\* Buffer.from(bytes).toString("base64"): the text as its characters.
RECURSIVE Base64(_)
Base64(bytes) ==
  IF Len(bytes) = 0 THEN <<>>
  ELSE IF Len(bytes) = 1
  THEN <<Base64Chars[(bytes[1] \div 4) + 1],
         Base64Chars[((bytes[1] % 4) * 16) + 1], "=", "=">>
  ELSE IF Len(bytes) = 2
  THEN <<Base64Chars[(bytes[1] \div 4) + 1],
         Base64Chars[((bytes[1] % 4) * 16) + (bytes[2] \div 16) + 1],
         Base64Chars[((bytes[2] % 16) * 4) + 1], "=">>
  ELSE <<Base64Chars[(bytes[1] \div 4) + 1],
         Base64Chars[((bytes[1] % 4) * 16) + (bytes[2] \div 16) + 1],
         Base64Chars[((bytes[2] % 16) * 4) + (bytes[3] \div 64) + 1],
         Base64Chars[(bytes[3] % 64) + 1]>>
       \o Base64(SubSeq(bytes, 4, Len(bytes)))

\* An element of a signatures array: a {publicKey, signature} pair whose
\* signature is a Buffer or null, a Uint8Array or Buffer, null, or a
\* primitive value.
SignaturePair(publicKey, present, bytes) ==
  [kind |-> "pair", publicKey |-> publicKey, present |-> present,
   bytes |-> bytes]

RawBytes(bytes) ==
  [kind |-> "bytes", publicKey |-> "", present |-> TRUE, bytes |-> bytes]

OtherItem(kind) ==
  [kind |-> kind, publicKey |-> "", present |-> FALSE, bytes |-> <<>>]

\* What the adapter returns, and that it threw.
SigningResult(signature) ==
  [outcome |-> "return", signature |-> signature, method |-> "privy-client"]

Thrown == [outcome |-> "throw", signature |-> <<>>, method |-> ""]

\* signatures.find((s) => s.publicKey.equals(feePayer)): the first element
\* whose key is the fee payer; reading publicKey of null, or calling
\* equals of the undefined publicKey of a value that has none, throws.
RECURSIVE Find(_, _)
Find(items, feePayer) ==
  IF items = <<>> THEN [found |-> "none", item |-> OtherItem("null")]
  ELSE IF items[1].kind # "pair"
  THEN [found |-> "throw", item |-> OtherItem("null")]
  ELSE IF items[1].publicKey = feePayer
  THEN [found |-> "match", item |-> items[1]]
  ELSE Find(Tail(items), feePayer)

\* signMemoTxWithPrivy from the value the callback resolved with to its
\* return.
NormalizeSignedTx(tx, feePayer) ==
  IF tx.kind \in {"undefined", "null"}
  THEN Thrown
  ELSE IF tx.kind = "signaturesArray" /\ tx.items # <<>>
          /\ tx.items[1].kind = "pair"
  THEN LET match == Find(tx.items, feePayer)
       IN IF match.found = "throw" THEN Thrown
          ELSE IF match.found = "match" /\ match.item.present
          THEN SigningResult(Base64(match.item.bytes))
          ELSE SigningResult(<<>>)
  ELSE IF tx.kind = "signaturesArray" /\ tx.items # <<>>
          /\ tx.items[1].kind = "bytes"
  THEN SigningResult(Base64(tx.items[1].bytes))
  ELSE SigningResult(<<>>)

\* The values the callback resolves with.
SignatureBytes == {<<1>>, <<250, 251, 252, 253>>}

PublicKeys == {FeePayer("privy-client"), "otherAccount"}

SignatureItems ==
  {SignaturePair(publicKey, TRUE, bytes) :
     publicKey \in PublicKeys, bytes \in SignatureBytes}
  \cup {SignaturePair(publicKey, FALSE, <<>>) : publicKey \in PublicKeys}
  \cup {RawBytes(bytes) : bytes \in SignatureBytes}
  \cup {OtherItem("null"), OtherItem("primitive")}

SignedTxValues ==
  {[kind |-> kind, items |-> <<>>] :
     kind \in {"undefined", "null", "primitive", "noSignatures",
               "signaturesNotArray"}}
  \cup {[kind |-> "signaturesArray", items |-> items] :
          items \in UNION {[1..n -> SignatureItems] : n \in 0..MaxSignatures}}

\* await signTransaction(...) resolves and signMemoTxWithPrivy runs to its
\* return or throws.
SignMemoTxWithPrivyReturn ==
  /\ signingResult.outcome = "pending"
  /\ signingResult' = NormalizeSignedTx(signedTx, FeePayer("privy-client"))
  /\ UNCHANGED <<variant, privyWalletAddress, recentBlockhash, results,
                 isRunning, progress, rendered, runs, now, lastOp, samples,
                 stats, built, signedTx>>

InitSign ==
  /\ InitHook
  /\ variant = "tx"
  /\ privyWalletAddress = "wallet"
  /\ samples = <<>>
  /\ stats = NotCalled
  /\ built = <<>>
  /\ signedTx \in SignedTxValues
  /\ signingResult = NoSigningResult

NextSign == SignMemoTxWithPrivyReturn

\* signMemoTxWithPrivy given any value by the callback.
SpecSign == InitSign /\ [][NextSign]_vars

\* ------------------------------------------------------------ properties
CountOf(seq, method) ==
  Cardinality({k \in DOMAIN seq : seq[k].method = method})

\* The run whose last step returned from runPerformanceTest.
Finished == lastOp.op = "finish"

FinishedTests == runs[lastOp.run].numTests

\* C1: when the run with the wallet address configured returns, results
\* holds exactly 3(n-1) samples, n-1 of each method (none for n = 1).
C1_CompletedRunSampleCount ==
  (Finished /\ privyWalletAddress = "wallet") =>
    /\ Len(results) = 3 * (FinishedTests - 1)
    /\ \A k \in 1..3 : CountOf(results, Methods[k]) = FinishedTests - 1

C1_Witness ==
  /\ Finished
  /\ privyWalletAddress = "wallet"
  /\ FinishedTests = 2
  /\ Len(results) = 3

\* C2 as claimed: when a run without a wallet address returns, results
\* holds no privy-client sample, and n-1 samples of each other method.
C2_NoRemoteSamples ==
  (Finished /\ privyWalletAddress = "undefined") =>
    /\ CountOf(results, "privy-client") = 0
    /\ CountOf(results, "local") = FinishedTests - 1
    /\ CountOf(results, "web-crypto") = FinishedTests - 1

\* C2 as amended: when a run without a wallet address returns, results
\* holds n-1 privy-client samples, each with timeTaken 0, and n-1 samples
\* of each other method.
C2_ZeroValuedRemoteSamples ==
  (Finished /\ privyWalletAddress = "undefined") =>
    /\ CountOf(results, "privy-client") = FinishedTests - 1
    /\ \A k \in DOMAIN results :
         results[k].method = "privy-client" => results[k].timeTaken = 0
    /\ CountOf(results, "local") = FinishedTests - 1
    /\ CountOf(results, "web-crypto") = FinishedTests - 1

C2_Witness ==
  /\ Finished
  /\ privyWalletAddress = "undefined"
  /\ FinishedTests = 2
  /\ CountOf(results, "privy-client") = 1

\* C3: without a wallet address no run calls the remote callback, every
\* privy-client sample has timeTaken 0, no run is aborted in the
\* privy-client loop, and a run that returns has counted all 3n iterations
\* and left isRunning false and currentMethod "idle".
C3_UnavailableIsNotAnError ==
  privyWalletAddress = "undefined" =>
    /\ \A r \in RunIds :
         /\ runs[r].remoteCalls = 0
         /\ runs[r].pc = "aborted" => runs[r].m # 2
    /\ \A k \in DOMAIN results :
         results[k].method = "privy-client" => results[k].timeTaken = 0
    /\ Finished =>
         /\ ~isRunning
         /\ progress = TestProgress(3 * FinishedTests, 3 * FinishedTests,
                                    "idle")

\* C4: at most one invocation of runPerformanceTest is past its guard and
\* not yet returned or aborted.
C4_AtMostOneRun == Cardinality(ActiveRuns) <= 1

Unreturned == {r \in RunIds : runs[r].pc \in {"awaitSign", "awaitPause", "hung",
                                                "aborted"}}

\* C5: while an invocation has not returned, 0 <= current <= total and
\* total = 3 * numTests.
C5_ProgressInvariant ==
  \A r \in Unreturned :
    /\ 0 <= progress.current
    /\ progress.current <= progress.total
    /\ progress.total = 3 * runs[r].numTests

\* C6: an aborted invocation leaves isRunning true, currentMethod the
\* method whose adapter rejected, current the count of the iterations
\* before it and results the samples pushed before it; and from then on
\* results, progress, isRunning and the invocation never change.
C6_AbortLeavesRunning ==
  /\ [](\A r \in RunIds : runs[r].pc = "aborted" =>
          /\ isRunning
          /\ progress.currentMethod = Methods[runs[r].m]
          /\ progress.current = runs[r].testCount
          /\ results = runs[r].newResults)
  /\ [][\A r \in RunIds : runs[r].pc = "aborted" =>
          /\ runs'[r] = runs[r]
          /\ results' = results
          /\ progress' = progress
          /\ isRunning' = isRunning]_vars

C6_Witness ==
  \E r \in RunIds :
    /\ runs[r].pc = "aborted"
    /\ runs[r].m = 3
    /\ Len(results) = 2

\* C7: clearResults runs only while no invocation is active and isRunning
\* is false; and while isRunning is true only a step of the run changes
\* results or progress.
C7_ClearOnlyOutsideRun ==
  /\ [](IsClear(lastOp) => (ActiveRuns = {} /\ ~isRunning))
  /\ [][(isRunning /\ (results' # results \/ progress' # progress)) =>
          lastOp'.op \in {"step", "finish", "throw"}]_vars

C7_Witness ==
  /\ IsClear(lastOp)
  /\ \E r \in RunIds : runs[r].pc = "done"

\* C8: after clearResults results is empty and progress is
\* {0, 0, "idle"}; a second clearResults right after it changes nothing.
C8_ClearIdempotent ==
  /\ [](IsClear(lastOp) =>
          (results = <<>> /\ progress = InitialProgress))
  /\ [][(IsClear(lastOp) /\ IsClear(lastOp')) =>
          /\ results' = results
          /\ progress' = progress
          /\ isRunning' = isRunning
          /\ runs' = runs]_vars

C8_Witness ==
  /\ lastOp.op = "clearAgain"
  /\ ActiveRuns # {}

MethodRank(method) ==
  CASE method = "local" -> 1
    [] method = "privy-client" -> 2
    [] method = "web-crypto" -> 3

\* C9: while a run is active currentMethod names the loop it is in and
\* all iterations of the earlier loops are counted; currentMethod only
\* changes idle -> local -> privy-client -> web-crypto -> idle; and in
\* results the local samples precede the privy-client samples, which
\* precede the web-crypto samples.
C9_MethodsInFixedOrder ==
  /\ [](\A r \in ActiveRuns :
          /\ MethodRank(progress.currentMethod) = runs[r].m
          /\ runs[r].testCount =
               (runs[r].m - 1) * runs[r].numTests + runs[r].i
               + (IF runs[r].pc = "awaitPause" THEN 1 ELSE 0))
  /\ [](\A j, k \in DOMAIN results :
          j < k => MethodRank(results[j].method)
                     <= MethodRank(results[k].method))
  /\ [][progress'.currentMethod # progress.currentMethod =>
          <<progress.currentMethod, progress'.currentMethod>> \in
            {<<"idle", "local">>, <<"local", "privy-client">>,
             <<"privy-client", "web-crypto">>, <<"web-crypto", "idle">>}]_vars

C9_Witness ==
  /\ Finished
  /\ FinishedTests = 2
  /\ [k \in DOMAIN results |-> results[k].method]
       = <<"local", "privy-client", "web-crypto">>

\* C10: an active run whose adapter calls and pauses all return
\* eventually returns, with isRunning false, currentMethod "idle" and
\* current = total = 3 * numTests.
C10_RunTerminates ==
  \A r \in RunIds :
    Active(runs[r]) ~>
      /\ runs[r].pc = "done"
      /\ ~isRunning
      /\ progress = TestProgress(3 * runs[r].numTests,
                                 3 * runs[r].numTests, "idle")

\* C11: a run whose remote signing call never settles keeps isRunning
\* true, currentMethod "privy-client" and current at the count of the
\* iterations before the call; from then on the run, results, progress
\* and isRunning never change, so no later iteration runs.
C11_HungRemoteCallStalls ==
  /\ [](\A r \in RunIds : runs[r].pc = "hung" =>
          /\ isRunning
          /\ runs[r].m = 2
          /\ progress.currentMethod = "privy-client"
          /\ progress.current = runs[r].testCount
          /\ progress.current = runs[r].numTests + runs[r].i)
  /\ [][\A r \in RunIds : runs[r].pc = "hung" =>
          /\ runs'[r] = runs[r]
          /\ results' = results
          /\ progress' = progress
          /\ isRunning' = isRunning]_vars

C11_Witness ==
  \E r \in RunIds :
    /\ runs[r].pc = "hung"
    /\ runs[r].i = 1
    /\ Len(results) = 1

\* The privy-client iterations a run has begun.
RemoteIterationsBegun(run) ==
  CASE run.pc = "free" -> 0
    [] run.pc = "done" -> run.numTests
    [] run.m < 2 -> 0
    [] run.m = 2 -> run.i + 1
    [] OTHER -> run.numTests

\* C12: a run has called the remote signing callback exactly once for
\* every privy-client iteration it has begun with a wallet address (n
\* times when it returns), also when a call rejected or never settled,
\* and never without a wallet address.
C12_RemoteCalledOncePerIteration ==
  \A r \in RunIds :
    runs[r].remoteCalls =
      IF privyWalletAddress = "wallet"
      THEN RemoteIterationsBegun(runs[r])
      ELSE 0

C12_Witness ==
  /\ Finished
  /\ privyWalletAddress = "wallet"
  /\ FinishedTests = 2
  /\ runs[lastOp.run].remoteCalls = 2

\* C13: the transactions a run of the tx hook has built are pairwise
\* different and so are their memos; each memo is generateTestMessage of
\* the run's testId, an iteration index below 3n and a clock value.
C13_PayloadsUnique ==
  \A r \in RunIds :
    LET payloads == runs[r].payloads IN
    /\ \A j, k \in DOMAIN payloads :
         j # k => /\ payloads[j] # payloads[k]
                  /\ payloads[j].instructions[1].data
                       # payloads[k].instructions[1].data
    /\ \A j \in DOMAIN payloads :
         \E index \in 0..(3 * runs[r].numTests - 1), ts \in 0..MaxClock :
           payloads[j].instructions[1].data =
             GenerateTestMessage(TestIdString(runs[r].testId), index, ts)

C13_Witness ==
  \E r \in RunIds :
    /\ Len(runs[r].payloads) = 6
    /\ now = runs[r].testId

\* C14: the sample a local iteration records holds a non-negative elapsed
\* time that is the time of the signing call alone, whatever the time the
\* construction of the payload took.
C14_LocalElapsedExcludesConstruction ==
  \A r \in RunIds :
    (/\ lastOp.timing.returned /\ lastOp.run = r
     /\ runs[r].m = 1 /\ runs[r].i > 0) =>
      LET sample == runs[r].newResults[Len(runs[r].newResults)] IN
      /\ sample.method = "local"
      /\ sample.timeTaken >= 0
      /\ sample.timeTaken = lastOp.timing.sign

\* The place of the first sample of a method in a sample sequence.
FirstIndex(seq, method) ==
  CHOOSE i \in DOMAIN seq :
    /\ seq[i].method = method
    /\ \A j \in 1..(i - 1) : seq[j].method # method

\* C15: calculateStats returns one entry per method that occurs in the
\* samples and no other, ordered by the methods' first occurrences, each
\* with totalTests the number of samples of its method; no sample, no entry.
C15_OneEntryPerMethodFirstSeen ==
  stats.returned =>
    LET entries == stats.value IN
    /\ {entries[k].method : k \in DOMAIN entries}
         = {samples[i].method : i \in DOMAIN samples}
    /\ \A j, k \in DOMAIN entries :
         j < k => FirstIndex(samples, entries[j].method)
                    < FirstIndex(samples, entries[k].method)
    /\ \A k \in DOMAIN entries :
         entries[k].totalTests = CountOf(samples, entries[k].method)
    /\ (samples = <<>> => entries = <<>>)

C15_Witness ==
  /\ stats.returned
  /\ Len(samples) = 4
  /\ samples[1].method = "web-crypto"
  /\ samples[2].method = "local"
  /\ samples[3].method = "web-crypto"
  /\ samples[4].method = "privy-client"
  /\ Len(stats.value) = 3
  /\ stats.value[1].totalTests = 2

\* The elapsed times of the samples of a method, in the order given.
TimesOf(seq, method) ==
  LET group == SelectSeq(seq, LAMBDA r : r.method = method)
  IN [j \in DOMAIN group |-> group[j].timeTaken]

\* The j-th of the values of times in ascending order: fewer than j values
\* are below it and at least j are not above it.
KthSmallest(times, j) ==
  CHOOSE x \in {times[i] : i \in DOMAIN times} :
    /\ Cardinality({i \in DOMAIN times : Less(times[i], x)}) < j
    /\ Cardinality({i \in DOMAIN times : ~Less(x, times[i])}) >= j

\* The number nearest to the exact average of a and b.
Midpoint(a, b) ==
  Round(Num(a) * Den(b) + Num(b) * Den(a), 2 * Den(a) * Den(b))

\* C16: the median calculateStats reports for a method is the central one
\* of the method's values in ascending order when their count is odd and
\* the average of the two central ones when it is even, in whatever order
\* the samples are given.
C16_MedianIsCentral ==
  stats.returned =>
    \A k \in DOMAIN stats.value :
      LET times == TimesOf(samples, stats.value[k].method)
          half == Len(times) \div 2
      IN stats.value[k].medianTime =
           IF Len(times) % 2 = 1
           THEN KthSmallest(times, half + 1)
           ELSE Midpoint(KthSmallest(times, half),
                         KthSmallest(times, half + 1))

C16_Witness ==
  /\ stats.returned
  /\ TimesOf(samples, "local") = <<Number(6), Number(1), Number(2), Number(1)>>
  /\ Len(stats.value) = 1
  /\ stats.value[1].medianTime = Float(3, 0 - 1)

\* The samples are of one method and all have the same elapsed time.
EqualValues ==
  /\ samples # <<>>
  /\ \A i \in DOMAIN samples :
       /\ samples[i].method = samples[1].method
       /\ samples[i].timeTaken = samples[1].timeTaken

\* The fraction n / d is a number: rounding leaves it as it is.
Representable(n, d) == Num(Round(n, d)) * d = n * Den(Round(n, d))

\* Adding v to itself up to k times never rounds.
ExactSums(v, k) ==
  \A j \in 1..k : Representable(j * Num(v), Den(v))

\* C17 as stated: k samples of one method, all of elapsed time v, give one
\* entry with avgTime = minTime = maxTime = medianTime = v and totalTests = k.
C17_EqualValuesAllStatsEqual ==
  (stats.returned /\ EqualValues) =>
    /\ Len(stats.value) = 1
    /\ stats.value[1].totalTests = Len(samples)
    /\ stats.value[1].avgTime = samples[1].timeTaken
    /\ stats.value[1].minTime = samples[1].timeTaken
    /\ stats.value[1].maxTime = samples[1].timeTaken
    /\ stats.value[1].medianTime = samples[1].timeTaken

\* C17 amended: k samples of one method, all of elapsed time v, give one
\* entry with minTime = maxTime = medianTime = v and totalTests = k, and
\* with avgTime = v when none of the sums v + v, ..., k times v rounds.
C17_EqualValuesExactMean ==
  (stats.returned /\ EqualValues) =>
    /\ Len(stats.value) = 1
    /\ stats.value[1].totalTests = Len(samples)
    /\ stats.value[1].minTime = samples[1].timeTaken
    /\ stats.value[1].maxTime = samples[1].timeTaken
    /\ stats.value[1].medianTime = samples[1].timeTaken
    /\ ExactSums(samples[1].timeTaken, Len(samples)) =>
         stats.value[1].avgTime = samples[1].timeTaken

C17_Witness ==
  /\ stats.returned
  /\ EqualValues
  /\ Len(samples) = 3
  /\ samples[1].timeTaken = Number(2)
  /\ stats.value[1].avgTime = Number(2)

\* C18: two transactions buildMemoTransaction built with the same fee payer
\* and the same memo but different recent blockhashes are different.
C18_DistinctBlockhashDistinctPayload ==
  \A j, k \in DOMAIN built :
    (/\ built[j].feePayer = built[k].feePayer
     /\ built[j].memo = built[k].memo
     /\ built[j].blockhash # built[k].blockhash) =>
      built[j].tx # built[k].tx

C18_Witness ==
  /\ Len(built) = 2
  /\ built[1].feePayer = built[2].feePayer
  /\ built[1].memo = built[2].memo
  /\ built[1].blockhash # built[2].blockhash
  /\ built[1].tx.recentBlockhash = "recentBlockhash"
  /\ built[2].tx.recentBlockhash = "nextBlockhash"

IsPrefix(a, b) == Len(a) <= Len(b) /\ SubSeq(b, 1, Len(a)) = a

\* C19: while a run is under way every step leaves the published results
\* as they are or appends to them: the results before the step are a prefix
\* of the results after it, so each snapshot after the reset that starts
\* the run is a prefix of every later one.
C19_ResultsAppendOnly ==
  [][isRunning => IsPrefix(results, results')]_vars

C19_Witness ==
  /\ isRunning
  /\ Len(results) = 3
  /\ \E r \in RunIds : runs[r].m = 3 /\ runs[r].pc = "awaitPause"

\* C20: the step that starts a run leaves results empty and progress the
\* {0, 3n, "idle"} of the reset with the first method entered, the first
\* adapter call still pending; what is published during a run is a prefix
\* of what that run collected, and all samples carry one testId.
C20_StartResets ==
  /\ lastOp.op \in {"start", "restart"} =>
       /\ isRunning
       /\ results = <<>>
       /\ progress =
            [TestProgress(0, 3 * runs[lastOp.run].numTests, "idle")
               EXCEPT !.currentMethod = "local"]
       /\ runs[lastOp.run].pc = "awaitSign"
       /\ runs[lastOp.run].testCount = 0
  /\ \A r \in Unreturned :
       /\ IsPrefix(results, runs[r].newResults)
       /\ \A k \in DOMAIN results : results[k].testId = runs[r].testId
  /\ \A j, k \in DOMAIN results : results[j].testId = results[k].testId

C20_Witness ==
  /\ lastOp.op = "restart"
  /\ results = <<>>
  /\ progress.total = 6

\* The shapes of the value the callback resolved with: a signatures array
\* of {publicKey, signature} pairs, and one of byte buffers.
StructuredList(tx) ==
  /\ tx.kind = "signaturesArray"
  /\ tx.items # <<>>
  /\ \A i \in DOMAIN tx.items : tx.items[i].kind = "pair"

RawList(tx) ==
  /\ tx.kind = "signaturesArray"
  /\ tx.items # <<>>
  /\ \A i \in DOMAIN tx.items : tx.items[i].kind = "bytes"

\* The signature of the fee payer in a structured list: that of the first
\* pair with the fee payer's key, empty when there is none.
SignatureOf(tx, feePayer) ==
  LET matching == {i \in DOMAIN tx.items : tx.items[i].publicKey = feePayer}
  IN IF matching = {} THEN <<>>
     ELSE LET i == CHOOSE x \in matching : \A y \in matching : x <= y
          IN IF tx.items[i].present THEN Base64(tx.items[i].bytes) ELSE <<>>

\* C21: whatever the callback resolved with, signMemoTxWithPrivy returns
\* with method "privy-client" and with the fee payer's signature for a
\* structured list (empty when no pair has the fee payer's key), the first
\* buffer for a list of byte buffers, and the empty signature for any
\* other value.
C21_NormalizationOfAnyShape ==
  signingResult.outcome # "pending" =>
    /\ signingResult.outcome = "return"
    /\ signingResult.method = "privy-client"
    /\ signingResult.signature =
         IF StructuredList(signedTx)
         THEN SignatureOf(signedTx, FeePayer("privy-client"))
         ELSE IF RawList(signedTx)
         THEN Base64(signedTx.items[1].bytes)
         ELSE <<>>

\* An invocation was ended by an adapter's rejection.
Aborted == \E r \in RunIds : runs[r].pc = "aborted"

\* The step begins a run.
RunBegins == lastOp'.op \in {"start", "restart"} /\ lastOp' # lastOp

\* C22: clearResults leaves isRunning as it is, and once an invocation has
\* been ended by a rejection every step (runPerformanceTest and
\* clearResults among them) leaves isRunning true and begins no run.
C22_AbortedNeverRestarts ==
  /\ [][IsClear(lastOp') => isRunning' = isRunning]_vars
  /\ [][Aborted => (isRunning' /\ ~RunBegins)]_vars

\* What is published is all that the invocation under way has collected.
PublishedAll == \A r \in Unreturned : results = runs[r].newResults

\* The step that returns from runPerformanceTest leaves results alone.
FinishKeepsResults ==
  (lastOp'.op = "finish" /\ lastOp' # lastOp) => results' = results

\* The methods whose first (warm-up) iteration is over, out of `completed`
\* iterations of a run of n per method.
WarmupsOver(completed, n) == (completed + n - 1) \div n

\* C23 as stated: what a run has published is all it collected, up to its
\* return, and at every point of a run the number of published samples is
\* at most current minus the number of methods begun.
C23_PublishedAtMostCompletedMinusBegun ==
  /\ [](PublishedAll
        /\ \A r \in Unreturned :
             Len(results) <= progress.current - runs[r].m)
  /\ [][FinishKeepsResults]_vars

\* C23 amended: what a run has published is all it collected, up to its
\* return, and at every point of a run the number of published samples is
\* current minus the number of methods whose warm-up iteration is over.
C23_PublishedIsCompletedMinusWarmups ==
  /\ [](PublishedAll
        /\ \A r \in Unreturned :
             Len(results) =
               progress.current
                 - WarmupsOver(progress.current, runs[r].numTests))
  /\ [][FinishKeepsResults]_vars

C23_Witness ==
  /\ isRunning
  /\ \E r \in RunIds :
       /\ runs[r].pc = "awaitPause"
       /\ runs[r].m = 3
       /\ runs[r].i = 1
       /\ runs[r].numTests = 2
       /\ results = runs[r].newResults
       /\ Len(results) = 3
       /\ progress.current = 6

LessEq(a, b) == ~Less(b, a)

\* The exact sum of numbers, as the fraction <<numerator, denominator>>.
RECURSIVE ExactSum(_)
ExactSum(times) ==
  IF times = <<>> THEN <<0, 1>>
  ELSE LET rest == ExactSum(Front(times))
           x == Last(times)
       IN <<rest[1] * Den(x) + Num(x) * rest[2], rest[2] * Den(x)>>

\* Adding the numbers one after the other never rounds.
RunningSumsExact(times) ==
  \A j \in DOMAIN times :
    LET sum == ExactSum(SubSeq(times, 1, j))
    IN Representable(sum[1], sum[2])

RECURSIVE TotalTests(_)
TotalTests(entries) ==
  IF entries = <<>> THEN 0
  ELSE TotalTests(Front(entries)) + Last(entries).totalTests

\* min <= median <= max, min and max are among the method's times, and
\* the totalTests of the entries add up to the number of samples.
OrderStatisticsInRange ==
  /\ \A k \in DOMAIN stats.value :
       LET entry == stats.value[k]
           times == TimesOf(samples, entry.method)
       IN /\ LessEq(entry.minTime, entry.medianTime)
          /\ LessEq(entry.medianTime, entry.maxTime)
          /\ \E i \in DOMAIN times : times[i] = entry.minTime
          /\ \E i \in DOMAIN times : times[i] = entry.maxTime
  /\ TotalTests(stats.value) = Len(samples)

\* C24 as stated: for every method's samples min <= median <= max and
\* min <= mean <= max, min and max are among them, and the totalTests of
\* all entries add up to the number of samples.
C24_StatsInRange ==
  stats.returned =>
    /\ OrderStatisticsInRange
    /\ \A k \in DOMAIN stats.value :
         /\ LessEq(stats.value[k].minTime, stats.value[k].avgTime)
         /\ LessEq(stats.value[k].avgTime, stats.value[k].maxTime)

\* C24 amended: min <= median <= max, min and max are among the method's
\* samples, the totalTests add up to the number of samples, and
\* min <= mean <= max for a method whose running sum never rounds.
C24_StatsInRangeExactSums ==
  stats.returned =>
    /\ OrderStatisticsInRange
    /\ \A k \in DOMAIN stats.value :
         RunningSumsExact(TimesOf(samples, stats.value[k].method)) =>
           /\ LessEq(stats.value[k].minTime, stats.value[k].avgTime)
           /\ LessEq(stats.value[k].avgTime, stats.value[k].maxTime)

C24_Witness ==
  /\ stats.returned
  /\ TimesOf(samples, "local") = <<Number(6), Number(2)>>
  /\ TimesOf(samples, "web-crypto") = <<Number(1), Number(2)>>
  /\ Len(stats.value) = 2
  /\ stats.value[1].minTime = Number(2)
  /\ stats.value[1].avgTime = Number(4)
  /\ stats.value[1].maxTime = Number(6)

\* C25: currentMethod is other than "idle" only while isRunning, and while
\* an invocation is in the loop of a method currentMethod is that method,
\* whatever calls of clearResults came in between.
C25_RunningAgreesWithProgress ==
  /\ progress.currentMethod # "idle" => isRunning
  /\ \A r \in RunIds :
       Active(runs[r]) =>
         /\ isRunning
         /\ progress.currentMethod = Methods[runs[r].m]

====
